---- MODULE Spec2Model ----
(***************************************************************************)
(* cQueue (src/src/cQueue.h): a fixed-capacity ring of equal-sized records *)
(* with FIFO or LIFO access and an optional overwrite-on-full policy.      *)
(*                                                                         *)
(* The Queue_t structure is the record q; the heap block q.queue points to *)
(* is (heap, mem).  Every C function is an operator from a machine state   *)
(* s = [q, heap, mem, ub] to the machine state it leaves (and its return   *)
(* value); every action is one call of one function.                       *)
(***************************************************************************)
EXTENDS Integers, Sequences, FiniteSets, TLC

VARIABLES
    q,      \* the Queue_t structure
    heap,   \* allocation status of every heap block
    mem,    \* the bytes of the block q.queue points to (a sequence, byte i at i+1)
    ub,     \* TRUE once a call has had undefined behaviour (bad free, bad access)
    last,   \* the last call: its name, its return value, the record it moved
    live,   \* history: the records accepted and not yet removed, oldest first
    net,    \* history: (pushes that returned true) - (pops and drops that returned true)
    novw,   \* history: pushes that returned true on a full queue
    main    \* the main-line q_push an interrupt may cut into: its position,
            \* its record, the cnt it has loaded, whether a q_pop has run inside one

vars == <<q, heap, mem, ub, last, live, net, novw, main>>

----------------------------------------------------------------------------
(* Bounds of the model *)

MaxRecNb == 3       \* capacities 1..MaxRecNb
MaxRecSz == 2       \* record sizes 1..MaxRecSz
MaxTag == 2         \* the caller pushes payloads 0..MaxTag
MaxNet == 5         \* pushes in excess of removals since the last reset
MaxBlocks == 2      \* heap blocks malloc can hand out
MaxIsrRecNb == 2    \* capacities 1..MaxIsrRecNb under interrupts (SpecIsr)
MaxIsrTag == 1      \* payloads 0..MaxIsrTag under interrupts
MaxIsrNet == 3      \* pushes in excess of pops under interrupts

(* Program constants *)

QUEUE_INITIALIZED == 23205      \* 0x5AA5
FIFO == 0
LIFO == 1
NULL == 0
U16 == 65536                    \* uint16_t arithmetic is modulo 2^16

Blocks == 1..MaxBlocks
Uninit == -1                    \* an indeterminate byte (fresh from malloc, or freed)
ByteVals == 0..(MaxTag + MaxRecSz - 1)

\* The payload the caller pushes for tag t: sz bytes, all different.
Payload(t, sz) == [i \in 1..sz |-> (t + i - 1) % 256]

NoRec == <<>>

----------------------------------------------------------------------------
(* The machine state the C functions work on *)

St == [q |-> q, heap |-> heap, mem |-> mem, ub |-> ub]

\* A Queue_t in static storage, before any call.
ZeroQueue ==
    [impl |-> FIFO, ovw |-> FALSE, rec_nb |-> 0, rec_sz |-> 0, queue_sz |-> 0,
     queue |-> NULL, in |-> 0, out |-> 0, cnt |-> 0, init |-> 0]

ZeroState ==
    [q |-> ZeroQueue, heap |-> [b \in Blocks |-> "free"], mem |-> <<>>, ub |-> FALSE]

\* n bytes at offset pStart of q.queue lie in a live block.
Accessible(s, pStart, n) ==
    /\ s.q.queue # NULL
    /\ s.heap[s.q.queue] = "live"
    /\ pStart + n <= Len(s.mem)

\* memcpy(q->queue + pStart, record, n)
MemWrite(s, pStart, record, n) ==
    IF Accessible(s, pStart, n)
    THEN [s EXCEPT !.mem = [i \in 1..Len(s.mem) |->
                              IF i > pStart /\ i <= pStart + n
                              THEN record[i - pStart] ELSE s.mem[i]]]
    ELSE [s EXCEPT !.ub = TRUE]

\* memcpy(record, q->queue + pStart, n): the records the caller may receive.
\* An indeterminate byte, or a byte outside a live block, reads as any value.
MemRead(s, pStart, n) ==
    IF Accessible(s, pStart, n)
    THEN {r \in [1..n -> ByteVals] :
            \A i \in 1..n : s.mem[pStart + i] # Uninit => r[i] = s.mem[pStart + i]}
    ELSE [1..n -> ByteVals]

\* free(p)
Free(s, p) ==
    IF p = NULL THEN s
    ELSE IF s.heap[p] = "live"
    THEN [s EXCEPT !.heap[p] = "free",
                   !.mem = [i \in 1..Len(s.mem) |-> Uninit]]
    ELSE [s EXCEPT !.ub = TRUE]

\* malloc: NULL, or any block that is not in use.
MallocResults(s) == {NULL} \cup {b \in Blocks : s.heap[b] = "free"}

----------------------------------------------------------------------------
(* cQueue.c *)

\* Mutant: the wrap test is off by one, the cursor reaches index end.
INC_IDX_late_wrap(ctr, end, start) == IF ctr < end THEN (ctr + 1) % U16 ELSE start

INC_IDX(ctr, end, start) == IF ctr < end - 1 THEN (ctr + 1) % U16 ELSE start

\* Mutant: a cursor at start wraps to end instead of end - 1.
DEC_IDX_wraps_to_end(ctr, end, start) == IF ctr > start THEN (ctr - 1) % U16 ELSE end % U16

DEC_IDX(ctr, end, start) == IF ctr > start THEN (ctr - 1) % U16 ELSE (end - 1) % U16

q_isInitialized(qq) == qq.init = QUEUE_INITIALIZED

q_isEmpty(qq) == qq.cnt = 0

q_isFull(qq) == qq.cnt = qq.rec_nb

q_sizeof(qq) == qq.queue_sz

q_getCount(qq) == qq.cnt

q_getRemainingCount(qq) == (qq.rec_nb - qq.cnt) % U16

q_kill(s) == Free(s, s.q.queue)

\* Mutant: the read cursor is not reset.
q_clean_keeps_out(s) == [s EXCEPT !.q.in = 0, !.q.cnt = 0]

q_clean(s) == [s EXCEPT !.q.in = 0, !.q.out = 0, !.q.cnt = 0]

\* q_init, with p the value malloc returns.
q_init_set(s, size_rec, nb_recs, type, overwrite) ==
    [s EXCEPT !.q.rec_nb = nb_recs, !.q.rec_sz = size_rec,
              !.q.impl = type, !.q.ovw = overwrite]

q_init_free(s) == IF s.q.init = QUEUE_INITIALIZED THEN q_kill(s) ELSE s

q_init_alloc(s, p) ==
    q_clean([s EXCEPT !.q.queue = p,
                      !.heap = IF p = NULL THEN s.heap ELSE [s.heap EXCEPT ![p] = "live"],
                      !.mem = IF p = NULL THEN <<>>
                              ELSE [i \in 1..(s.q.rec_nb * s.q.rec_sz) |-> Uninit],
                      !.q.init = QUEUE_INITIALIZED])

q_init(s, size_rec, nb_recs, type, overwrite, p) ==
    q_init_alloc(q_init_free(q_init_set(s, size_rec, nb_recs, type, overwrite)), p)

\* Mutant: the count is increased on a full queue too.
q_push_count_unchecked(qq) == [qq EXCEPT !.cnt = (qq.cnt + 1) % U16]

\* Mutant: an overwriting push leaves the read cursor on the overwritten slot.
q_push_count_keeps_out(qq) ==
    IF ~q_isFull(qq) THEN [qq EXCEPT !.cnt = (qq.cnt + 1) % U16] ELSE qq

\* Mutant: an overwriting push advances the read cursor in LIFO mode too.
q_push_count_advances_out(qq) ==
    IF ~q_isFull(qq) THEN [qq EXCEPT !.cnt = (qq.cnt + 1) % U16]
    ELSE IF qq.ovw THEN [qq EXCEPT !.out = INC_IDX(qq.out, qq.rec_nb, 0)]
    ELSE qq

q_push_count(qq) ==
    IF ~q_isFull(qq) THEN [qq EXCEPT !.cnt = (qq.cnt + 1) % U16]
    ELSE IF qq.ovw
    THEN (IF qq.impl = FIFO
          THEN [qq EXCEPT !.out = INC_IDX(qq.out, qq.rec_nb, 0)]
          ELSE qq)
    ELSE qq

\* Mutant: the record is copied in before the full test.
q_push_late_check(s, record) ==
    LET w == MemWrite(s, s.q.rec_sz * s.q.in, record, s.q.rec_sz)
    IN  IF (~s.q.ovw) /\ q_isFull(s.q) THEN [s |-> w, ret |-> FALSE]
        ELSE LET a == [w EXCEPT !.q.in = INC_IDX(w.q.in, w.q.rec_nb, 0)]
             IN  [s |-> [a EXCEPT !.q = q_push_count(a.q)], ret |-> TRUE]

q_push(s, record) ==
    IF (~s.q.ovw) /\ q_isFull(s.q) THEN [s |-> s, ret |-> FALSE]
    ELSE LET w == MemWrite(s, s.q.rec_sz * s.q.in, record, s.q.rec_sz)
             a == [w EXCEPT !.q.in = INC_IDX(w.q.in, w.q.rec_nb, 0)]
         IN  [s |-> [a EXCEPT !.q = q_push_count(a.q)], ret |-> TRUE]

\* Mutant: in LIFO mode the slot is read before the write cursor is moved back.
q_pop_select_post_decrement(qq) ==
    IF qq.impl = FIFO
    THEN [ok |-> TRUE, slot |-> qq.out,
          q |-> [qq EXCEPT !.out = INC_IDX(qq.out, qq.rec_nb, 0)]]
    ELSE [ok |-> TRUE, slot |-> qq.in,
          q |-> [qq EXCEPT !.in = DEC_IDX(qq.in, qq.rec_nb, 0)]]

\* The slot q_pop reads and the cursors it leaves, before cnt is decreased.
q_pop_select(qq) ==
    IF qq.impl = FIFO
    THEN [ok |-> TRUE, slot |-> qq.out,
          q |-> [qq EXCEPT !.out = INC_IDX(qq.out, qq.rec_nb, 0)]]
    ELSE IF qq.impl = LIFO
    THEN [ok |-> TRUE, slot |-> DEC_IDX(qq.in, qq.rec_nb, 0),
          q |-> [qq EXCEPT !.in = DEC_IDX(qq.in, qq.rec_nb, 0)]]
    ELSE [ok |-> FALSE, slot |-> 0, q |-> qq]

\* The outcomes of q_pop: the state it leaves, its return value, the record copied out.
q_pop(s) ==
    IF q_isEmpty(s.q) THEN {[s |-> s, ret |-> FALSE, rec |-> NoRec]}
    ELSE LET sel == q_pop_select(s.q)
             pStart == s.q.rec_sz * sel.slot
         IN  IF ~sel.ok THEN {[s |-> s, ret |-> FALSE, rec |-> NoRec]}
             ELSE {[s |-> [s EXCEPT !.q = [sel.q EXCEPT !.cnt = (sel.q.cnt - 1) % U16],
                                    !.ub = s.ub \/ ~Accessible(s, pStart, s.q.rec_sz)],
                    ret |-> TRUE, rec |-> r] : r \in MemRead(s, pStart, s.q.rec_sz)}

\* Mutant: q_peek consumes the record, as q_pop does.
q_peek_consuming(s) == q_pop(s)

\* Mutant: in LIFO mode q_peek reads the slot at the write cursor.
q_peek_select_at_in(qq) ==
    IF qq.impl = FIFO THEN [ok |-> TRUE, slot |-> qq.out]
    ELSE [ok |-> TRUE, slot |-> qq.in]

\* The slot q_peek reads.
q_peek_select(qq) ==
    IF qq.impl = FIFO THEN [ok |-> TRUE, slot |-> qq.out]
    ELSE IF qq.impl = LIFO THEN [ok |-> TRUE, slot |-> DEC_IDX(qq.in, qq.rec_nb, 0)]
    ELSE [ok |-> FALSE, slot |-> 0]

q_peek(s) ==
    IF q_isEmpty(s.q) THEN {[s |-> s, ret |-> FALSE, rec |-> NoRec]}
    ELSE LET sel == q_peek_select(s.q)
             pStart == s.q.rec_sz * sel.slot
         IN  IF ~sel.ok THEN {[s |-> s, ret |-> FALSE, rec |-> NoRec]}
             ELSE {[s |-> [s EXCEPT !.ub = s.ub \/ ~Accessible(s, pStart, s.q.rec_sz)],
                    ret |-> TRUE, rec |-> r] : r \in MemRead(s, pStart, s.q.rec_sz)}

\* Mutant: the count is not decreased.
q_drop_keeps_cnt(s) ==
    IF q_isEmpty(s.q) THEN [s |-> s, ret |-> FALSE]
    ELSE IF s.q.impl = FIFO
    THEN [s |-> [s EXCEPT !.q.out = INC_IDX(s.q.out, s.q.rec_nb, 0)], ret |-> TRUE]
    ELSE [s |-> [s EXCEPT !.q.in = DEC_IDX(s.q.in, s.q.rec_nb, 0)], ret |-> TRUE]

\* Mutant: the empty test is missing.
q_drop_unchecked(s) ==
    IF s.q.impl = FIFO
    THEN [s |-> [s EXCEPT !.q.out = INC_IDX(s.q.out, s.q.rec_nb, 0),
                          !.q.cnt = (s.q.cnt - 1) % U16], ret |-> TRUE]
    ELSE [s |-> [s EXCEPT !.q.in = DEC_IDX(s.q.in, s.q.rec_nb, 0),
                          !.q.cnt = (s.q.cnt - 1) % U16], ret |-> TRUE]

q_drop(s) ==
    IF q_isEmpty(s.q) THEN [s |-> s, ret |-> FALSE]
    ELSE IF s.q.impl = FIFO
    THEN [s |-> [s EXCEPT !.q.out = INC_IDX(s.q.out, s.q.rec_nb, 0),
                          !.q.cnt = (s.q.cnt - 1) % U16], ret |-> TRUE]
    ELSE IF s.q.impl = LIFO
    THEN [s |-> [s EXCEPT !.q.in = DEC_IDX(s.q.in, s.q.rec_nb, 0),
                          !.q.cnt = (s.q.cnt - 1) % U16], ret |-> TRUE]
    ELSE [s |-> s, ret |-> FALSE]

----------------------------------------------------------------------------
(* History variables: what the caller has seen, read off the return values *)

\* The record the caller expects next: the oldest (FIFO) or the newest (LIFO).
Front(l, type) == IF type = FIFO THEN l[1] ELSE l[Len(l)]

\* The records left after one is removed from the front.
Remove(l, type) == IF type = FIFO THEN Tail(l) ELSE SubSeq(l, 1, Len(l) - 1)

\* The records held after record r is accepted by a queue of capacity cap:
\* a queue that was full has lost its oldest record.
Accept(l, r, cap) == IF Len(l) < cap THEN Append(l, r) ELSE Append(Tail(l), r)

\* No q_push is under way.
IdleMain == [pc |-> "idle", rec |-> NoRec, tmp |-> 0, raced |-> FALSE]

\* A call that runs from its entry to its return leaves the machine in state s.
Machine(s) == /\ q' = s.q
              /\ heap' = s.heap
              /\ mem' = s.mem
              /\ ub' = s.ub
              /\ main' = main

----------------------------------------------------------------------------
(* Actions: one call each *)

Push ==
    \E t \in 0..MaxTag :
        LET record == Payload(t, q.rec_sz)
            r == q_push(St, record)
        IN  /\ net < MaxNet
            /\ Machine(r.s)
            /\ last' = [op |-> "push", ret |-> r.ret, rec |-> record]
            /\ live' = IF r.ret THEN Accept(live, record, q.rec_nb) ELSE live
            /\ net' = IF r.ret THEN net + 1 ELSE net
            /\ novw' = IF r.ret /\ q_isFull(q) THEN novw + 1 ELSE novw

Pop ==
    \E r \in q_pop(St) :
        /\ Machine(r.s)
        /\ last' = [op |-> "pop", ret |-> r.ret, rec |-> r.rec]
        /\ live' = IF r.ret /\ live # <<>> THEN Remove(live, q.impl) ELSE live
        /\ net' = IF r.ret THEN net - 1 ELSE net
        /\ novw' = novw

Peek ==
    \E r \in q_peek(St) :
        /\ Machine(r.s)
        /\ last' = [op |-> "peek", ret |-> r.ret, rec |-> r.rec]
        /\ UNCHANGED <<live, net, novw>>

Drop ==
    LET r == q_drop(St)
    IN  /\ Machine(r.s)
        /\ last' = [op |-> "drop", ret |-> r.ret, rec |-> NoRec]
        /\ live' = IF r.ret /\ live # <<>> THEN Remove(live, q.impl) ELSE live
        /\ net' = IF r.ret THEN net - 1 ELSE net
        /\ novw' = novw

Flush ==
    /\ Machine(q_clean(St))
    /\ last' = [op |-> "flush", ret |-> TRUE, rec |-> NoRec]
    /\ live' = <<>>
    /\ net' = 0
    /\ novw' = 0

\* q_init returns nothing (as q_kill and q_flush do): last.ret is TRUE whatever
\* malloc returned.
QInit ==
    \E size_rec \in 1..MaxRecSz, nb_recs \in 1..MaxRecNb,
       type \in {FIFO, LIFO}, overwrite \in BOOLEAN :
        LET f == q_init_free(q_init_set(St, size_rec, nb_recs, type, overwrite))
        IN  \E p \in MallocResults(f) :
                /\ Machine(q_init(St, size_rec, nb_recs, type, overwrite, p))
                /\ last' = [op |-> "init", ret |-> TRUE, rec |-> NoRec]
                /\ live' = <<>>
                /\ net' = 0
                /\ novw' = 0

QKill ==
    /\ Machine(q_kill(St))
    /\ last' = [op |-> "kill", ret |-> TRUE, rec |-> NoRec]
    /\ UNCHANGED <<live, net, novw>>

----------------------------------------------------------------------------
(* Spec: a ready queue (after one successful q_init) under the queue calls *)

Init ==
    \E size_rec \in 1..MaxRecSz, nb_recs \in 1..MaxRecNb,
       type \in {FIFO, LIFO}, overwrite \in BOOLEAN :
        LET s == q_init(ZeroState, size_rec, nb_recs, type, overwrite, 1)
        IN  /\ q = s.q
            /\ heap = s.heap
            /\ mem = s.mem
            /\ ub = s.ub
            /\ last = [op |-> "init", ret |-> TRUE, rec |-> NoRec]
            /\ live = <<>>
            /\ net = 0
            /\ novw = 0
            /\ main = IdleMain

Next == Push \/ Pop \/ Peek \/ Drop \/ Flush

Spec == Init /\ [][Next]_vars

(* SpecLife: the whole life of a Queue_t in static storage *)

InitLife ==
    /\ q = ZeroQueue
    /\ heap = ZeroState.heap
    /\ mem = <<>>
    /\ ub = FALSE
    /\ last = [op |-> "none", ret |-> TRUE, rec |-> NoRec]
    /\ live = <<>>
    /\ net = 0
    /\ novw = 0
    /\ main = IdleMain

NextLife == QInit \/ QKill \/ Push \/ Pop \/ Peek \/ Drop \/ Flush

SpecLife == InitLife /\ [][NextLife]_vars

(* SpecIsr: a ready FIFO queue of one-byte records, q_push in the main line   *)
(* taken one statement at a time, q_pop in an interrupt handler that runs to *)
(* completion between any two of them (cQueue.h warns that interrupts must   *)
(* be disabled).  A run ends when a q_push a q_pop has cut into returns.     *)

\* The q_push under way returns true.
PushReturns(wasFull) ==
    /\ last' = [op |-> "push", ret |-> TRUE, rec |-> main.rec]
    /\ live' = Accept(live, main.rec, q.rec_nb)
    /\ net' = net + 1
    /\ novw' = IF wasFull THEN novw + 1 ELSE novw

\* The q_push under way moves on to statement pc.
PushGoes(pc) ==
    /\ main' = [main EXCEPT !.pc = pc]
    /\ UNCHANGED <<last, live, net, novw>>

\* if ((!q->ovw) && q_isFull(q)) { return false; }
PushEnter ==
    \E t \in 0..MaxIsrTag :
        LET record == Payload(t, q.rec_sz)
        IN  /\ main.pc = "idle"
            /\ ~main.raced
            /\ net < MaxIsrNet
            /\ UNCHANGED <<q, heap, mem, ub, live, net, novw>>
            /\ IF (~q.ovw) /\ q_isFull(q)
               THEN /\ last' = [op |-> "push", ret |-> FALSE, rec |-> record]
                    /\ main' = main
               ELSE /\ last' = last
                    /\ main' = [main EXCEPT !.pc = "copy", !.rec = record]

\* memcpy(pStart, record, q->rec_sz)
PushCopy ==
    LET w == MemWrite(St, q.rec_sz * q.in, main.rec, q.rec_sz)
    IN  /\ main.pc = "copy"
        /\ q' = w.q /\ heap' = w.heap /\ mem' = w.mem /\ ub' = w.ub
        /\ PushGoes("inc_in")

\* INC_IDX(q->in, q->rec_nb, 0)
PushIncIn ==
    /\ main.pc = "inc_in"
    /\ q' = [q EXCEPT !.in = INC_IDX(q.in, q.rec_nb, 0)]
    /\ UNCHANGED <<heap, mem, ub>>
    /\ PushGoes("test")

\* if (!q_isFull(q)) ... else if (q->ovw) ...
PushTestFull ==
    /\ main.pc = "test"
    /\ UNCHANGED <<q, heap, mem, ub>>
    /\ IF ~q_isFull(q) THEN PushGoes("load")
       ELSE IF q.ovw /\ q.impl = FIFO THEN PushGoes("inc_out")
       ELSE PushReturns(TRUE) /\ main' = [IdleMain EXCEPT !.raced = main.raced]

\* q->cnt++, the load
PushLoadCnt ==
    /\ main.pc = "load"
    /\ UNCHANGED <<q, heap, mem, ub, last, live, net, novw>>
    /\ main' = [main EXCEPT !.pc = "store", !.tmp = q.cnt]

\* q->cnt++, the store; return true
PushStoreCnt ==
    /\ main.pc = "store"
    /\ q' = [q EXCEPT !.cnt = (main.tmp + 1) % U16]
    /\ UNCHANGED <<heap, mem, ub>>
    /\ PushReturns(FALSE)
    /\ main' = [IdleMain EXCEPT !.raced = main.raced]

\* INC_IDX(q->out, q->rec_nb, 0); return true
PushIncOut ==
    /\ main.pc = "inc_out"
    /\ q' = [q EXCEPT !.out = INC_IDX(q.out, q.rec_nb, 0)]
    /\ UNCHANGED <<heap, mem, ub>>
    /\ PushReturns(TRUE)
    /\ main' = [IdleMain EXCEPT !.raced = main.raced]

\* q_pop in the interrupt handler.
IsrPop ==
    \E r \in q_pop(St) :
        /\ ~main.raced
        /\ q' = r.s.q /\ heap' = r.s.heap /\ mem' = r.s.mem /\ ub' = r.s.ub
        /\ last' = [op |-> "pop", ret |-> r.ret, rec |-> r.rec]
        /\ live' = IF r.ret /\ live # <<>> THEN Remove(live, q.impl) ELSE live
        /\ net' = IF r.ret THEN net - 1 ELSE net
        /\ novw' = novw
        /\ main' = [main EXCEPT !.raced = main.raced \/ main.pc # "idle"]

InitIsr == Init /\ q.impl = FIFO /\ q.rec_sz = 1 /\ q.rec_nb <= MaxIsrRecNb

NextIsr ==
    \/ PushEnter \/ PushCopy \/ PushIncIn \/ PushTestFull
    \/ PushLoadCnt \/ PushStoreCnt \/ PushIncOut
    \/ IsrPop

SpecIsr == InitIsr /\ [][NextIsr]_vars

----------------------------------------------------------------------------
(* Properties *)

\* The storage region q.queue points to is allocated.
StorageAllocated == q.queue # NULL /\ heap[q.queue] = "live"

\* The step is a call of op (the name of the call it leaves in last).
Called(op) == last'.op = op

\* The call of the step left the cursors, the count and the storage as they were.
Untouched == q' = q /\ mem' = mem

\* C1: in FIFO mode with overwrite disabled, q_pop succeeds exactly when a
\* record accepted by q_push has not been returned yet, and it returns the
\* oldest such record: the pops return the accepted records in push order,
\* each once, also when the cursors have wrapped.
C1_FifoOrder ==
    [][(q.impl = FIFO /\ ~q.ovw /\ Called("pop")) =>
          /\ last'.ret <=> live # <<>>
          /\ last'.ret => last'.rec = live[1] /\ live' = Tail(live)]_vars

C1_Witness ==
    /\ q.impl = FIFO /\ ~q.ovw /\ q.rec_nb = 3 /\ q.rec_sz = 2
    /\ last.op = "pop" /\ last.ret
    /\ q.cnt = 2 /\ q.in < q.out
    /\ live[1] # live[2] /\ last.rec # live[1]

\* C2: in LIFO mode with overwrite disabled, q_pop succeeds exactly when a
\* pushed record has not been popped or dropped yet, and it returns the most
\* recently pushed such record.
C2_LifoOrder ==
    [][(q.impl = LIFO /\ ~q.ovw /\ Called("pop")) =>
          /\ last'.ret <=> live # <<>>
          /\ last'.ret => /\ last'.rec = live[Len(live)]
                          /\ live' = SubSeq(live, 1, Len(live) - 1)]_vars

C2_Witness ==
    /\ q.impl = LIFO /\ ~q.ovw /\ q.rec_nb = 3 /\ q.rec_sz = 2
    /\ last.op = "pop" /\ last.ret
    /\ q.cnt = 2 /\ live[1] # live[2] /\ last.rec # live[2]

\* C3: cnt never leaves 0..rec_nb.
C3_CountInRange == 0 <= q.cnt /\ q.cnt <= q.rec_nb

C3_Witness ==
    /\ q.ovw /\ q.rec_nb = 3 /\ q.cnt = q.rec_nb
    /\ last.op = "push" /\ last.ret /\ novw > 0

Clamp(x, lo, hi) == IF x < lo THEN lo ELSE IF x > hi THEN hi ELSE x

\* C4 as claimed: cnt is (pushes that returned true) - (pops and drops that
\* returned true), clamped into 0..rec_nb.
C4_CountIsClampedNet == q.cnt = Clamp(net, 0, q.rec_nb)

\* C4 as amended: cnt is (pushes that returned true on a queue that was not
\* full) - (pops and drops that returned true); with overwrite disabled no
\* push returns true on a full queue and cnt is the claimed difference.
C4_CountIsNetOfKept ==
    /\ q.cnt = net - novw
    /\ ~q.ovw => novw = 0

C4_Witness ==
    /\ q.ovw /\ q.rec_nb = 3 /\ novw = 2 /\ net = 4 /\ q.cnt = 2
    /\ last.op \in {"pop", "drop"} /\ last.ret

\* C5: q_push on a full queue with overwrite disabled returns false and
\* leaves in, out, cnt and the storage as they were, in both modes.
C5_PushFullRejected ==
    [][(Called("push") /\ q_isFull(q) /\ ~q.ovw) => (~last'.ret /\ Untouched)]_vars

C5_Witness ==
    /\ ~q.ovw /\ q.impl = LIFO /\ q.rec_nb = 3 /\ q_isFull(q)
    /\ last.op = "push" /\ ~last.ret
    /\ last.rec # live[Len(live)]

\* C6: in FIFO mode with overwrite enabled, q_push on a full queue returns
\* true and keeps cnt = rec_nb, and what it evicts is the oldest record: every
\* q_pop returns the oldest record among the last rec_nb accepted ones.
C6_FifoOverwrite ==
    [][(q.impl = FIFO /\ q.ovw) =>
          /\ (Called("push") /\ q_isFull(q)) => (last'.ret /\ q'.cnt = q.rec_nb)
          /\ Called("pop") => /\ last'.ret <=> live # <<>>
                              /\ last'.ret => last'.rec = live[1]]_vars

C6_Witness ==
    /\ q.impl = FIFO /\ q.ovw /\ q.rec_nb = 3 /\ q.rec_sz = 2
    /\ last.op = "pop" /\ last.ret
    /\ novw = 2 /\ net = 4 /\ q.cnt = 2

\* C7: q_pop, q_peek and q_drop on an empty queue return false and leave in,
\* out, cnt and the storage as they were.
C7_EmptyRejected ==
    [][(q_isEmpty(q) /\ (Called("pop") \/ Called("peek") \/ Called("drop"))) =>
          (~last'.ret /\ Untouched)]_vars

C7_Witness ==
    /\ q_isEmpty(q) /\ q.rec_nb = 2 /\ q.in = 1 /\ q.out = 1
    /\ \A i \in 1..Len(mem) : mem[i] # Uninit
    /\ last.op \in {"pop", "peek", "drop"} /\ ~last.ret

\* C8: q_peek leaves in, out, cnt and the storage as they were, and a q_peek
\* that follows a q_peek returns the same status and the same record.
C8_PeekPure ==
    [][Called("peek") => /\ Untouched
                         /\ last.op = "peek" => last' = last]_vars

C8_Witness ==
    /\ q.impl = LIFO /\ q.rec_nb = 3 /\ q.in = 0 /\ q.cnt = 2
    /\ last.op = "peek" /\ last.ret /\ last.rec = live[Len(live)]

\* C9: q_flush sets in, out and cnt to 0 and changes nothing else, and from
\* then on the queue answers as a freshly initialised one does: what the
\* storage held before the flush is never returned, every q_pop and q_peek
\* returns a record accepted since.
C9_FlushResets ==
    [][/\ Called("flush") => /\ q' = [q EXCEPT !.in = 0, !.out = 0, !.cnt = 0]
                             /\ mem' = mem /\ heap' = heap /\ ub' = ub
       /\ (Called("pop") \/ Called("peek")) =>
             /\ last'.ret <=> live # <<>>
             /\ last'.ret => last'.rec = Front(live, q.impl)]_vars

C9_Witness ==
    /\ last.op = "flush" /\ q.in = 0 /\ q.out = 0 /\ q.cnt = 0
    /\ q.rec_nb = 3 /\ \A i \in 1..Len(mem) : mem[i] # Uninit

\* C10: the storage region is allocated if and only if q_isInitialized is
\* true (the state a failed allocation leaves, q.queue = NULL, set aside).
C10_AllocatedIffReady ==
    \/ q.queue = NULL /\ q_isInitialized(q)
    \/ StorageAllocated <=> q_isInitialized(q)

\* C11: every allocated region is released exactly once: a region that is
\* allocated is the one q.queue points to (none is lost), and neither q_init
\* nor q_kill passes to free a region that is not allocated (none is
\* released twice).
C11_ReleasedExactlyOnce ==
    [][/\ \A b \in Blocks : heap'[b] = "live" => q'.queue = b
       /\ (Called("init") \/ Called("kill")) => (ub' => ub)]_vars

\* C12: when the allocation inside q_init fails, q_init reports the failure
\* and leaves the queue not ready.
C12_FailedInitReported ==
    (last.op = "init" /\ q.queue = NULL) => (~last.ret /\ ~q_isInitialized(q))

\* C13: q_push, q_pop, q_peek and q_drop on a queue whose storage is not
\* allocated return failure, do not touch the storage region and leave in,
\* out and cnt as they were.
C13_NotReadyRejected ==
    [][(~StorageAllocated /\
        (Called("push") \/ Called("pop") \/ Called("peek") \/ Called("drop"))) =>
          (~last'.ret /\ q' = q /\ (ub' => ub))]_vars

\* C14: q_sizeof is rec_nb * rec_sz, q_getRemainingCount is rec_nb - cnt,
\* q_isEmpty is cnt = 0 and q_isFull is cnt = rec_nb.
C14_StatusQueries ==
    /\ q_sizeof(q) = q.rec_nb * q.rec_sz
    /\ q_sizeof(q) = Len(mem)
    /\ q_getRemainingCount(q) = q.rec_nb - q.cnt
    /\ q_isEmpty(q) <=> q.cnt = 0
    /\ q_isFull(q) <=> q.cnt = q.rec_nb

\* C16: in and out are in 0..rec_nb-1, and a cursor step is exact arithmetic
\* modulo rec_nb, for every capacity from 1.
C16_CursorsInRange ==
    /\ q.in \in 0..(q.rec_nb - 1)
    /\ q.out \in 0..(q.rec_nb - 1)
    /\ \A i \in 0..(q.rec_nb - 1) :
          /\ INC_IDX(i, q.rec_nb, 0) = (i + 1) % q.rec_nb
          /\ DEC_IDX(i, q.rec_nb, 0) = (i - 1 + q.rec_nb) % q.rec_nb

C16_Witness ==
    /\ q.rec_nb = 1 /\ q.impl = LIFO /\ q.ovw /\ novw > 0
    /\ q.in = 0 /\ q.out = 0 /\ last.op = "pop" /\ last.ret

\* C17: q_drop and q_pop return the same status and leave the same state.
C17_DropIsPopWithoutCopy ==
    \A r \in q_pop(St) : r.ret = q_drop(St).ret /\ r.s = q_drop(St).s

C17_Witness ==
    /\ q.impl = LIFO /\ q.rec_nb = 3 /\ q.cnt = 1 /\ q.in = 0
    /\ last.op = "drop" /\ last.ret

\* C18: on a queue that is not empty, q_peek returns the record the q_pop
\* that follows it returns.
C18_PeekIsNextPop ==
    ~q_isEmpty(q) =>
        \A a \in q_peek(St) : \A b \in q_pop(a.s) : a.ret /\ b.ret /\ a.rec = b.rec

C18_Witness ==
    /\ q.impl = LIFO /\ q.ovw /\ q.rec_nb = 3 /\ q.rec_sz = 2 /\ q.in = 0 /\ q.cnt = 2
    /\ novw = 1 /\ last.op = "peek" /\ last.ret

\* C19: in LIFO mode with overwrite enabled, q_push on a full queue returns
\* true, keeps cnt = rec_nb and leaves out as it was, and what it discards is
\* the oldest record: every q_pop returns the newest of the last rec_nb
\* accepted records that has not been removed.
C19_LifoOverwrite ==
    [][(q.impl = LIFO /\ q.ovw) =>
          /\ (Called("push") /\ q_isFull(q)) =>
                (last'.ret /\ q'.cnt = q.rec_nb /\ q'.out = q.out)
          /\ Called("pop") => /\ last'.ret <=> live # <<>>
                              /\ last'.ret => last'.rec = live[Len(live)]]_vars

C19_Witness ==
    /\ q.impl = LIFO /\ q.ovw /\ q.rec_nb = 3 /\ q.rec_sz = 2
    /\ last.op = "pop" /\ last.ret
    /\ novw = 2 /\ net = 2 /\ q.cnt = 0

\* C20: in FIFO mode in = (out + cnt) mod rec_nb.
C20_FifoCursors ==
    q.impl = FIFO => q.in = (q.out + q.cnt) % q.rec_nb

C20_Witness ==
    /\ q.impl = FIFO /\ q.ovw /\ q.rec_nb = 3 /\ novw > 0
    /\ q.cnt = 2 /\ q.in < q.out

\* The record in slot i of the storage.
Slot(i) == [k \in 1..q.rec_sz |-> mem[q.rec_sz * i + k]]

\* cnt is the number of records pushed and not popped, and they lie in push
\* order from the read cursor on.
FifoConsistent ==
    /\ q.cnt = Len(live)
    /\ \A k \in 1..Len(live) : Slot((q.out + k - 1) % q.rec_nb) = live[k]

\* C15: without mutual exclusion one producer and one consumer break the
\* queue: between two calls of q_push the FIFO queue is consistent as long as
\* no q_pop has run inside a q_push, and (C15_Witness) a q_pop that has run
\* inside one leaves cnt different from the number of records pushed and not
\* popped.
C15_ConsistentUnlessRaced ==
    (main.pc = "idle" /\ ~main.raced) => FifoConsistent

C15_Witness ==
    /\ main.pc = "idle" /\ main.raced
    /\ ~q.ovw /\ q.cnt = 2 /\ Len(live) = 1
    /\ last.op = "push" /\ last.ret

====
